---- MODULE Spec2Model ----
(***************************************************************************)
(* Model of the resumable staged uploader of walrus-sync:                  *)
(*   WalrusUploader (uploadFile, uploadFiles, executeStage, stageEncoding, *)
(*   stageUploading, stageCertifying, isBlobCertified) and StateManager    *)
(*   (saveState, loadState, removeState).                                  *)
(* Every await of the code is one step; the process may be killed between  *)
(* any two steps.  The Walrus client and the file system are environment:  *)
(* each call may succeed or throw.                                         *)
(***************************************************************************)
EXTENDS Integers, Sequences, FiniteSets, TLC

(* ------------------------------ bounds -------------------------------- *)
\* uploadFile invocations over the whole behaviour
MaxRuns == 3
\* ledger objects the register transaction may create
MaxObjects == 2
\* stage-2 recoveries (restart from encoding) inside one uploadFile
MaxRestarts == 2
\* process kills over the whole behaviour
MaxKills == 1
\* storage nodes answering writeEncodedBlobToNodes
NumNodes == 2
\* files given to one uploadFiles call
MaxBatch == 2
\* failing calls (file system, state directory, Walrus client) over the
\* whole behaviour
MaxFaults == 2

(* ------------------------------- data --------------------------------- *)
Paths == {1, 2}

\* calculateBlobId: the blob id is a function of the file's bytes
BlobIdOf(p) == p

BlobIds == {BlobIdOf(p) : p \in Paths}

\* values of options.epochs as uploadFile may receive them
EpochsValues == {"undefined", "0", "5"}

\* `!options.epochs`
EpochsMissingOnlyUndefined(e) == e = "undefined"

EpochsMissing(e) == e \in {"undefined", "0"}

UploadStage == {"encoding", "registered", "uploading", "certifying",
                "completed", "failed"}

NoRec == [stage |-> "none"]

\* a state file whose content JSON.parse rejects
Corrupt == [stage |-> "corrupt"]

NoConf == <<"absent">>

ConfSeqs == [1..NumNodes -> {"null", "conf"}]

\* the state object created by uploadFile for a fresh upload
NewState(p) ==
  [filePath |-> p, blobId |-> BlobIdOf(p), stage |-> "encoding",
   blobObjectId |-> 0, metadata |-> "absent", sliversByNode |-> "absent",
   rootHash |-> "absent", confirmations |-> NoConf, error |-> "none"]

\* JSON.stringify followed by JSON.parse: typed arrays inside the encoder's
\* output come back as plain objects, absent fields stay absent, null
\* entries of an array stay null
JsonForm(v) == IF v = "native" THEN "json" ELSE v

JsonRoundTrip(r) ==
  [r EXCEPT !.metadata = JsonForm(@), !.sliversByNode = JsonForm(@)]

\* confirmations.filter((c) => c !== null)
ValidConfirmationsUnfiltered(cs) == cs

RECURSIVE ValidConfirmations(_)
ValidConfirmations(cs) ==
  IF cs = <<>> THEN <<>>
  ELSE IF Head(cs) # "null"
       THEN <<Head(cs)>> \o ValidConfirmations(Tail(cs))
       ELSE ValidConfirmations(Tail(cs))

\* answers of getVerifiedBlobStatus ("throw": the lookup failed)
StatusTypes == {"permanent", "deletable", "nonexistent", "invalid", "throw"}

\* isBlobCertified, from the status answer, its initialCertifiedEpoch and
\* the outcome of the fallback readBlob
IsBlobCertified(type, hasEpoch, readOk) ==
  IF type \in {"permanent", "deletable"} THEN hasEpoch
  ELSE IF type = "throw" THEN readOk
  ELSE FALSE

(* ------------------------------ state --------------------------------- *)
VARIABLES
  store,      \* state directory: blob id -> saved record, or NoRec
  ledger,     \* Sui blob objects: object id -> [blobId, status]
  certified,  \* blob id -> the blob is certified on Walrus
  pc,         \* position of the process
  batch,      \* filePaths of the running uploadFiles call
  idx,        \* index in batch of the current file
  epochs,     \* options.epochs
  st,         \* the in-memory state object of the current uploadFile
  depth,      \* nested executeStage frames (each with its catch)
  inSuTry,    \* stageCertifying was called from stageUploading's try
  restarts,   \* stage-2 recoveries in the current uploadFile
  err,        \* message of the error being propagated
  log,        \* calls made by the current uploadFile, in order
  result,     \* how the last uploadFile ended
  runs,       \* uploadFile invocations so far
  faults,     \* calls that have failed so far
  kills,      \* kills so far
  killPoint,  \* [at, blobId]: where the last kill hit the upload of blobId
  resumed,    \* where the previous process was killed on the current blob
  prev        \* summary of the uploadFile that ended before the current one

vars == <<store, ledger, certified, pc, batch, idx, epochs, st, depth,
          inSuTry, restarts, err, log, result, runs, faults, kills,
          killPoint, resumed, prev>>

NoKill == [at |-> "none", blobId |-> 0]

\* no uploadFile has ended, or the last one was killed
NoPrev == [blobId |-> 0, fresh |-> FALSE, regs |-> 0, result |-> "none"]

\* a logged call: operation, object id passed or returned, record passed,
\* whether it returned, and the confirmations it returned
EvRet(op, obj, rec, ok, ret) ==
  [op |-> op, obj |-> obj, rec |-> rec, ok |-> ok, ret |-> ret]

Ev(op, obj, rec, ok) == EvRet(op, obj, rec, ok, NoConf)

Init ==
  /\ store = [b \in BlobIds |-> NoRec]
  /\ ledger = <<>>
  /\ certified = [b \in BlobIds |-> FALSE]
  /\ pc = "idle"
  /\ batch = <<>>
  /\ idx = 1
  /\ epochs = "5"
  /\ st = NoRec
  /\ depth = 0
  /\ inSuTry = FALSE
  /\ restarts = 0
  /\ err = "none"
  /\ log = <<>>
  /\ result = "none"
  /\ runs = 0
  /\ faults = 0
  /\ kills = 0
  /\ killPoint = NoKill
  /\ resumed = "none"
  /\ prev = NoPrev


(* ----------------------------- helpers -------------------------------- *)
CurPath == batch[idx]

CurBlob == BlobIdOf(CurPath)

Logged(e) == log' = Append(log, e)

\* uploadFile returns normally to the loop of uploadFiles
ReturnOkSamePath ==
  /\ pc' = "loop"
  /\ idx' = idx
  /\ result' = "returned"

ReturnOk ==
  /\ pc' = "loop"
  /\ idx' = idx + 1
  /\ result' = "returned"

\* an exception leaves the innermost try: stageUploading's catch when
\* stageCertifying runs inside its try, else executeStage's catch
ThrowFromCertifying == IF inSuTry THEN "su_catch" ELSE "exec_catch"

\* the stage-2 recovery restarts the upload; the model follows at most
\* MaxRestarts of them in one uploadFile
CanRestart == restarts < MaxRestarts

\* a call of the environment fails / does not fail
Fault == faults < MaxFaults /\ faults' = faults + 1

NoFault == UNCHANGED faults

(* --------------------------- StateManager ----------------------------- *)
\* saveState: writeFile(JSON.stringify(state)) under the blob id
SaveStateWritesNothing(r) == UNCHANGED store

SaveState(r) == store' = [store EXCEPT ![r.blobId] = JsonRoundTrip(r)]

\* loadState: JSON.parse of the file, null when it cannot be read
LoadStateUnparsed(b) == store[b]

LoadState(b) == IF store[b] = Corrupt THEN NoRec ELSE store[b]

\* removeState: unlink of the state file
RemoveStateKeepsFile(b) == UNCHANGED store

RemoveState(b) == store' = [store EXCEPT ![b] = NoRec]

\* unlink throws when the state file does not exist
RemoveCanSucceed(b) == store[b] # NoRec

NonTerminalKeepsFailed(r) == r.stage \notin {"none", "corrupt", "completed"}

NonTerminal(r) ==
  r.stage \notin {"none", "corrupt", "completed", "failed"}

\* listPendingUploads: source paths of the saved records at a non-terminal
\* stage
ListPendingUploads ==
  {store[b].filePath : b \in {x \in BlobIds : NonTerminal(store[x])}}

\* orders in which a directory listing may give a set of paths
RECURSIVE Orders(_)
Orders(S) ==
  IF S = {} THEN {<<>>}
  ELSE UNION {{<<p>> \o o : o \in Orders(S \ {p})} : p \in S}

BatchesOf == UNION {[1..n -> Paths] : n \in 1..MaxBatch}

(* ------------------------------- cli ---------------------------------- *)
StartUploadFiles(paths, e) ==
  /\ pc = "idle"
  /\ runs + Len(paths) <= MaxRuns
  /\ pc' = "loop"
  /\ batch' = paths
  /\ idx' = 1
  /\ epochs' = e
  /\ UNCHANGED <<store, ledger, certified, st, depth, inSuTry, restarts,
                 err, log, result, runs, faults, kills, prev, killPoint, resumed>>

\* walrus-sync <file or dir> --epochs e
Cli == \E paths \in BatchesOf, e \in EpochsValues : StartUploadFiles(paths, e)

\* walrus-sync <dir> --epochs e --resume
CliResume ==
  \E paths \in Orders(ListPendingUploads), e \in EpochsValues :
    StartUploadFiles(paths, e)

(* ---------------------------- uploadFiles ----------------------------- *)
\* the process ends: nothing but the state directory and the ledger stays
ProcessExit ==
  /\ pc' = "idle"
  /\ batch' = <<>>
  /\ idx' = 1
  /\ epochs' = "5"
  /\ st' = NoRec
  /\ depth' = 0
  /\ inSuTry' = FALSE
  /\ restarts' = 0
  /\ err' = "none"
  /\ log' = <<>>
  /\ result' = "none"
  /\ resumed' = "none"

\* what is remembered of the uploadFile that has just ended: its blob,
\* whether it was a fresh upload (no record, blob not certified) in which
\* every call succeeded, and its register calls
RunSummary ==
  [blobId |-> BlobIdOf(batch[idx - 1]),
   fresh  |-> /\ \A i \in 1..Len(log) : log[i].ok
              /\ restarts = 0
              /\ \E i \in 1..Len(log) :
                   log[i].op = "loadState" /\ log[i].rec = NoRec
              /\ \E i \in 1..Len(log) :
                   /\ log[i].op = "isBlobCertified@uploadFile"
                   /\ log[i].ret = <<"not certified">>,
   regs   |-> Cardinality({i \in 1..Len(log) : log[i].op = "register"}),
   result |-> result]

\* for (const fp of filePaths) await this.uploadFile(fp, options)
UploadFilesNext ==
  /\ pc = "loop"
  /\ prev' = IF idx > 1 THEN RunSummary ELSE prev
  /\ IF idx > Len(batch)
     THEN ProcessExit /\ UNCHANGED runs
     ELSE /\ pc' = "uf_check"
          /\ st' = NoRec
          /\ depth' = 0
          /\ inSuTry' = FALSE
          /\ restarts' = 0
          /\ err' = "none"
          /\ log' = <<>>
          /\ result' = "running"
          /\ runs' = runs + 1
          /\ resumed' = "none"
          /\ UNCHANGED <<batch, idx, epochs>>
  /\ UNCHANGED <<store, ledger, certified, faults, kills, killPoint>>

(* ----------------------------- uploadFile ----------------------------- *)
\* if (!options.epochs) throw: outside the try, so uploadFiles rejects
UfCheckEpochs ==
  /\ pc = "uf_check"
  /\ IF EpochsMissing(epochs)
     THEN /\ pc' = "rejected"
          /\ result' = "threw"
     ELSE /\ pc' = "uf_read"
          /\ UNCHANGED result
  /\ UNCHANGED <<store, ledger, certified, batch, idx, epochs, st, depth,
                 inSuTry, restarts, err, log, runs, faults, kills, prev,
                 killPoint, resumed>>

\* the rejection of uploadFiles is not handled by the cli: the batch ends
UploadFilesRejected ==
  /\ pc = "rejected"
  /\ ProcessExit
  /\ UNCHANGED <<store, ledger, certified, runs, faults, kills, prev, killPoint>>

UfReadFile ==
  /\ pc = "uf_read"
  /\ \/ /\ Logged(Ev("readFile", 0, NoRec, TRUE))
        /\ pc' = "uf_blobid"
        /\ NoFault
        /\ UNCHANGED err
     \/ /\ Logged(Ev("readFile", 0, NoRec, FALSE))
        /\ pc' = "uf_catch"
        /\ Fault
        /\ err' = "readFile failed"
  /\ UNCHANGED <<store, ledger, certified, batch, idx, epochs, st, depth,
                 inSuTry, restarts, result, runs, kills, prev, killPoint, resumed>>

UfCalculateBlobId ==
  /\ pc = "uf_blobid"
  /\ \/ /\ Logged(Ev("computeBlobMetadata", 0, NoRec, TRUE))
        /\ pc' = "uf_load"
        /\ NoFault
        /\ UNCHANGED err
     \/ /\ Logged(Ev("computeBlobMetadata", 0, NoRec, FALSE))
        /\ pc' = "uf_catch"
        /\ Fault
        /\ err' = "computeBlobMetadata failed"
  /\ UNCHANGED <<store, ledger, certified, batch, idx, epochs, st, depth,
                 inSuTry, restarts, result, runs, kills, prev, killPoint, resumed>>

UfLoadState ==
  /\ pc = "uf_load"
  /\ st' = LoadState(CurBlob)
  /\ Logged(Ev("loadState", 0, st', TRUE))
  /\ pc' = IF st' = NoRec THEN "uf_status"
           ELSE IF st'.stage = "completed" THEN "uf_status_done"
           ELSE "exec"
  /\ IF killPoint.blobId = CurBlob
     THEN resumed' = killPoint.at /\ killPoint' = NoKill
     ELSE UNCHANGED <<resumed, killPoint>>
  /\ UNCHANGED <<store, ledger, certified, batch, idx, epochs, depth,
                 inSuTry, restarts, err, result, runs, faults, kills, prev>>

\* the environment's answers to isBlobCertified(b): the status lookup
\* reports a certification epoch exactly for a certified blob, and the
\* fallback readBlob can succeed only for a certified blob
StatusAnswers(b) ==
  {a \in [type : StatusTypes, hasEpoch : BOOLEAN, readOk : BOOLEAN] :
     /\ a.hasEpoch = (certified[b] /\ a.type \in {"permanent", "deletable"})
     /\ a.type \in {"nonexistent", "invalid"} => ~certified[b]
     /\ a.readOk => (certified[b] /\ a.type = "throw")}

\* the logged isBlobCertified call of the given caller, with its answer
StatusEv(a, caller) ==
  EvRet(caller, 0, NoRec, a.type # "throw",
        IF IsBlobCertified(a.type, a.hasEpoch, a.readOk)
        THEN <<"certified">> ELSE <<"not certified">>)

\* no local state: skip a certified blob, else start at encoding
FreshDecisionNeverSkips(isCertified) == "start"

FreshDecision(isCertified) == IF isCertified THEN "skip" ELSE "start"

UfStatusFresh ==
  /\ pc = "uf_status"
  /\ \E a \in StatusAnswers(CurBlob) :
       /\ Logged(StatusEv(a, "isBlobCertified@uploadFile"))
       /\ IF a.type = "throw" THEN Fault ELSE NoFault
       /\ IF FreshDecision(IsBlobCertified(a.type, a.hasEpoch, a.readOk))
             = "skip"
          THEN ReturnOk /\ UNCHANGED st
          ELSE /\ st' = NewState(CurPath)
               /\ pc' = "exec"
               /\ UNCHANGED <<idx, result>>
  /\ UNCHANGED <<store, ledger, certified, batch, epochs, depth, inSuTry,
                 restarts, err, runs, kills, prev, killPoint, resumed>>

\* local state says completed: re-check the certification
UfStatusCompletedKeepsStage ==
  /\ pc = "uf_status_done"
  /\ \E a \in StatusAnswers(CurBlob) :
       /\ Logged(StatusEv(a, "isBlobCertified@uploadFile"))
       /\ IF a.type = "throw" THEN Fault ELSE NoFault
       /\ IF IsBlobCertified(a.type, a.hasEpoch, a.readOk)
          THEN pc' = "uf_remove" /\ UNCHANGED st
          ELSE pc' = "exec" /\ UNCHANGED st
  /\ UNCHANGED <<store, ledger, certified, batch, idx, epochs, depth,
                 inSuTry, restarts, err, result, runs, kills, prev, killPoint,
                 resumed>>

UfStatusCompleted ==
  /\ pc = "uf_status_done"
  /\ \E a \in StatusAnswers(CurBlob) :
       /\ Logged(StatusEv(a, "isBlobCertified@uploadFile"))
       /\ IF a.type = "throw" THEN Fault ELSE NoFault
       /\ IF IsBlobCertified(a.type, a.hasEpoch, a.readOk)
          THEN pc' = "uf_remove" /\ UNCHANGED st
          ELSE /\ st' = [st EXCEPT !.stage = "encoding"]
               /\ pc' = "exec"
  /\ UNCHANGED <<store, ledger, certified, batch, idx, epochs, depth,
                 inSuTry, restarts, err, result, runs, kills, prev, killPoint,
                 resumed>>

UfRemoveState ==
  /\ pc = "uf_remove"
  /\ \/ /\ RemoveCanSucceed(CurBlob)
        /\ RemoveState(CurBlob)
        /\ Logged(Ev("removeState", 0, NoRec, TRUE))
        /\ ReturnOk
        /\ NoFault
        /\ UNCHANGED err
     \/ /\ IF RemoveCanSucceed(CurBlob) THEN Fault ELSE NoFault
        /\ Logged(Ev("removeState", 0, NoRec, FALSE))
        /\ err' = "removeState failed"
        /\ pc' = "uf_catch"
        /\ UNCHANGED <<store, idx, result>>
  /\ UNCHANGED <<ledger, certified, batch, epochs, st, depth, inSuTry,
                 restarts, runs, kills, prev, killPoint, resumed>>

\* catch (error) { console.error(...) } of uploadFile
UfCatchRethrows ==
  /\ pc = "uf_catch"
  /\ pc' = "rejected"
  /\ result' = "threw"
  /\ UNCHANGED <<store, ledger, certified, batch, idx, epochs, st, depth,
                 inSuTry, restarts, err, log, runs, faults, kills, prev,
                 killPoint, resumed>>

UfCatch ==
  /\ pc = "uf_catch"
  /\ pc' = "loop"
  /\ idx' = idx + 1
  /\ result' = "caught"
  /\ UNCHANGED <<store, ledger, certified, batch, epochs, st, depth,
                 inSuTry, restarts, err, log, runs, faults, kills, prev,
                 killPoint, resumed>>

(* ---------------------------- executeStage ---------------------------- *)
\* switch (state.stage): the stage function each case calls
StageEntryReencode(stage) ==
  IF stage \in {"encoding", "failed", "registered"} THEN "se_encode"
  ELSE IF stage \in {"uploading", "certifying"} THEN "sc_pre"
  ELSE "return"

StageEntry(stage) ==
  IF stage \in {"encoding", "failed"} THEN "se_encode"
  ELSE IF stage = "registered" THEN "su_pre"
  ELSE IF stage \in {"uploading", "certifying"} THEN "sc_pre"
  ELSE "return"

\* the try of executeStage
ExecuteStageResumesFailed ==
  /\ pc = "exec"
  /\ depth' = depth + 1
  /\ IF StageEntry(st.stage) = "return"
     THEN ReturnOk /\ UNCHANGED inSuTry
     ELSE /\ pc' = IF st.stage = "failed" /\ st.blobObjectId # 0
                   THEN "su_pre" ELSE StageEntry(st.stage)
          /\ inSuTry' = IF pc' = "sc_pre" THEN FALSE ELSE inSuTry
          /\ UNCHANGED <<idx, result>>
  /\ UNCHANGED <<store, ledger, certified, batch, epochs, st, restarts,
                 err, log, runs, faults, kills, prev, killPoint, resumed>>

ExecuteStage ==
  /\ pc = "exec"
  /\ depth' = depth + 1
  /\ IF StageEntry(st.stage) = "return"
     THEN ReturnOk /\ UNCHANGED inSuTry
     ELSE /\ pc' = StageEntry(st.stage)
          /\ inSuTry' = IF pc' = "sc_pre" THEN FALSE ELSE inSuTry
          /\ UNCHANGED <<idx, result>>
  /\ UNCHANGED <<store, ledger, certified, batch, epochs, st, restarts,
                 err, log, runs, faults, kills, prev, killPoint, resumed>>

\* catch of executeStage: mark the state failed, save it, rethrow to the
\* enclosing executeStage or to uploadFile
ExecuteStageCatch ==
  /\ pc = "exec_catch"
  /\ st' = [st EXCEPT !.stage = "failed", !.error = err]
  /\ \/ /\ Logged(Ev("saveState", st'.blobObjectId, st', TRUE))
        /\ SaveState(st')
        /\ NoFault
        /\ UNCHANGED err
     \/ /\ Logged(Ev("saveState", st'.blobObjectId, st', FALSE))
        /\ Fault
        /\ err' = "saveState failed"
        /\ UNCHANGED store
  /\ depth' = depth - 1
  /\ pc' = IF depth' = 0 THEN "uf_catch" ELSE "exec_catch"
  /\ UNCHANGED <<ledger, certified, batch, idx, epochs, inSuTry, restarts,
                 result, runs, kills, prev, killPoint, resumed>>

(* ---------------------------- stageEncoding --------------------------- *)
SeEncode ==
  /\ pc = "se_encode"
  /\ \/ /\ Logged(Ev("encodeBlob", 0, NoRec, TRUE))
        /\ pc' = "se_register"
        /\ NoFault
        /\ UNCHANGED err
     \/ /\ Logged(Ev("encodeBlob", 0, NoRec, FALSE))
        /\ pc' = "exec_catch"
        /\ Fault
        /\ err' = "encodeBlob failed"
  /\ UNCHANGED <<store, ledger, certified, batch, idx, epochs, st, depth,
                 inSuTry, restarts, result, runs, kills, prev, killPoint, resumed>>

\* executeRegisterBlobTransaction creates a new blob object on the ledger
SeRegister ==
  /\ pc = "se_register"
  /\ \/ /\ Len(ledger) < MaxObjects
        /\ ledger' = Append(ledger, [blobId |-> st.blobId,
                                     status |-> "registered"])
        /\ Logged(Ev("register", Len(ledger'), NoRec, TRUE))
        /\ pc' = "se_save"
        /\ NoFault
        /\ UNCHANGED err
     \/ /\ IF Len(ledger) < MaxObjects THEN Fault ELSE NoFault
        /\ Logged(Ev("register", 0, NoRec, FALSE))
        /\ err' = "register failed"
        /\ pc' = "exec_catch"
        /\ UNCHANGED ledger
  /\ UNCHANGED <<store, certified, batch, idx, epochs, st, depth, inSuTry,
                 restarts, result, runs, kills, prev, killPoint, resumed>>

\* the object id returned by the register call of this stageEncoding
RegisteredObjectBefore == Len(ledger) - 1

RegisteredObject == Len(ledger)

\* the state stageEncoding saves after registering
RegisteredStateStageKept(s, obj) ==
  [s EXCEPT !.metadata = "native", !.blobObjectId = obj,
            !.rootHash = "b64", !.sliversByNode = "native"]

RegisteredState(s, obj) ==
  [s EXCEPT !.metadata = "native", !.blobObjectId = obj,
            !.rootHash = "b64", !.sliversByNode = "native",
            !.stage = "registered"]

SeSaveState ==
  /\ pc = "se_save"
  /\ st' = RegisteredState(st, RegisteredObject)
  /\ \/ /\ Logged(Ev("saveState", st'.blobObjectId, st', TRUE))
        /\ SaveState(st')
        /\ pc' = "su_pre"
        /\ NoFault
        /\ UNCHANGED err
     \/ /\ Logged(Ev("saveState", st'.blobObjectId, st', FALSE))
        /\ Fault
        /\ err' = "saveState failed"
        /\ pc' = "exec_catch"
        /\ UNCHANGED store
  /\ UNCHANGED <<ledger, certified, batch, idx, epochs, depth, inSuTry,
                 restarts, result, runs, kills, prev, killPoint, resumed>>

(* ---------------------------- stageUploading -------------------------- *)
\* !state.metadata || !state.sliversByNode || !state.blobObjectId
MissingForUploadingObjectOnly(s) == s.blobObjectId = 0

MissingForUploading(s) ==
  s.metadata = "absent" \/ s.sliversByNode = "absent" \/ s.blobObjectId = 0

SuPrecondition ==
  /\ pc = "su_pre"
  /\ IF MissingForUploading(st)
     THEN /\ err' = "Missing required state for uploading stage"
          /\ pc' = "exec_catch"
     ELSE pc' = "su_write" /\ UNCHANGED err
  /\ UNCHANGED <<store, ledger, certified, batch, idx, epochs, st, depth,
                 inSuTry, restarts, log, result, runs, faults, kills, prev,
                 killPoint, resumed>>

\* writeEncodedBlobToNodes, the count of valid confirmations, and the
\* update of the state object
SuWrite ==
  /\ pc = "su_write"
  /\ \/ \E cs \in ConfSeqs :
          /\ Logged(EvRet("writeToNodes", st.blobObjectId, st, TRUE, cs))
          /\ IF Len(ValidConfirmations(cs)) = 0
             THEN /\ CanRestart
                  /\ Fault
                  /\ err' = "No valid confirmations received"
                  /\ pc' = "su_catch"
                  /\ UNCHANGED st
             ELSE /\ st' = [st EXCEPT !.confirmations = cs,
                                      !.stage = "uploading"]
                  /\ pc' = "su_save"
                  /\ NoFault
                  /\ UNCHANGED err
     \/ /\ CanRestart
        /\ Fault
        /\ Logged(Ev("writeToNodes", st.blobObjectId, st, FALSE))
        /\ err' = "writeToNodes failed"
        /\ pc' = "su_catch"
        /\ UNCHANGED st
  /\ UNCHANGED <<store, ledger, certified, batch, idx, epochs, depth,
                 inSuTry, restarts, result, runs, kills, prev, killPoint, resumed>>

SuSaveState ==
  /\ pc = "su_save"
  /\ \/ /\ Logged(Ev("saveState", st.blobObjectId, st, TRUE))
        /\ SaveState(st)
        /\ pc' = "sc_pre"
        /\ inSuTry' = TRUE
        /\ NoFault
        /\ UNCHANGED err
     \/ /\ CanRestart
        /\ Fault
        /\ Logged(Ev("saveState", st.blobObjectId, st, FALSE))
        /\ err' = "saveState failed"
        /\ pc' = "su_catch"
        /\ UNCHANGED <<store, inSuTry>>
  /\ UNCHANGED <<ledger, certified, batch, idx, epochs, st, depth,
                 restarts, result, runs, kills, prev, killPoint, resumed>>

\* catch of stageUploading, cleanup: executeDeleteBlobTransaction, whose
\* failure is only logged
SuCatchCleanupEscalates ==
  /\ pc = "su_catch"
  /\ IF st.blobObjectId # 0
     THEN \/ /\ st.blobObjectId \in 1..Len(ledger)
             /\ ledger[st.blobObjectId].status = "registered"
             /\ ledger' = [ledger EXCEPT ![st.blobObjectId].status =
                                           "deleted"]
             /\ Logged(Ev("deleteBlob", st.blobObjectId, NoRec, TRUE))
             /\ NoFault
             /\ pc' = "su_reset"
          \/ /\ Logged(Ev("deleteBlob", st.blobObjectId, NoRec, FALSE))
             /\ IF /\ st.blobObjectId \in 1..Len(ledger)
                   /\ ledger[st.blobObjectId].status = "registered"
                THEN Fault ELSE NoFault
             /\ UNCHANGED ledger
             /\ pc' = "exec_catch"
     ELSE pc' = "su_reset" /\ UNCHANGED <<ledger, log, faults>>
  /\ UNCHANGED <<store, certified, batch, idx, epochs, st, depth, inSuTry,
                 restarts, err, result, runs, kills, prev, killPoint, resumed>>

SuCatchCleanup ==
  /\ pc = "su_catch"
  /\ pc' = "su_reset"
  /\ IF st.blobObjectId # 0
     THEN \/ /\ st.blobObjectId \in 1..Len(ledger)
             /\ ledger[st.blobObjectId].status = "registered"
             /\ ledger' = [ledger EXCEPT ![st.blobObjectId].status =
                                           "deleted"]
             /\ Logged(Ev("deleteBlob", st.blobObjectId, NoRec, TRUE))
             /\ NoFault
          \/ /\ Logged(Ev("deleteBlob", st.blobObjectId, NoRec, FALSE))
             /\ IF /\ st.blobObjectId \in 1..Len(ledger)
                   /\ ledger[st.blobObjectId].status = "registered"
                THEN Fault ELSE NoFault
             /\ UNCHANGED ledger
     ELSE UNCHANGED <<ledger, log, faults>>
  /\ UNCHANGED <<store, certified, batch, idx, epochs, st, depth, inSuTry,
                 restarts, err, result, runs, kills, prev, killPoint, resumed>>

\* the state stageUploading saves when it resets to encoding
ResetStateKeepsObject(s) ==
  [s EXCEPT !.stage = "encoding",
            !.metadata = "absent", !.sliversByNode = "absent",
            !.confirmations = NoConf, !.error = "none"]

ResetState(s) ==
  [s EXCEPT !.stage = "encoding", !.blobObjectId = 0,
            !.metadata = "absent", !.sliversByNode = "absent",
            !.confirmations = NoConf, !.error = "none"]

\* catch of stageUploading, reset: save the cleared state and restart
SuCatchReset ==
  /\ pc = "su_reset"
  /\ st' = ResetState(st)
  /\ restarts' = restarts + 1
  /\ inSuTry' = FALSE
  /\ \/ /\ Logged(Ev("saveState", st'.blobObjectId, st', TRUE))
        /\ SaveState(st')
        /\ pc' = "exec"
        /\ NoFault
        /\ UNCHANGED err
     \/ /\ Logged(Ev("saveState", st'.blobObjectId, st', FALSE))
        /\ Fault
        /\ err' = "saveState failed"
        /\ pc' = "exec_catch"
        /\ UNCHANGED store
  /\ UNCHANGED <<ledger, certified, batch, idx, epochs, depth, result,
                 runs, kills, prev, killPoint, resumed>>

(* ---------------------------- stageCertifying ------------------------- *)
MissingForCertifying(s) == s.confirmations = NoConf \/ s.blobObjectId = 0

ScPrecondition ==
  /\ pc = "sc_pre"
  /\ IF MissingForCertifying(st)
     THEN /\ err' = "Missing required state for certification stage"
          /\ pc' = ThrowFromCertifying
     ELSE pc' = "sc_status" /\ UNCHANGED err
  /\ UNCHANGED <<store, ledger, certified, batch, idx, epochs, st, depth,
                 inSuTry, restarts, log, result, runs, faults, kills, prev,
                 killPoint, resumed>>

\* if (isCertified) { removeState; return } else certify
AfterStatusAlwaysCertify(isCertified) == "sc_certify"

AfterStatus(isCertified) ==
  IF isCertified THEN "sc_remove_certified" ELSE "sc_certify"

ScStatus ==
  /\ pc = "sc_status"
  /\ \E a \in StatusAnswers(st.blobId) :
       /\ Logged(StatusEv(a, "isBlobCertified@stageCertifying"))
       /\ IF a.type = "throw" THEN Fault ELSE NoFault
       /\ pc' = AfterStatus(IsBlobCertified(a.type, a.hasEpoch, a.readOk))
  /\ UNCHANGED <<store, ledger, certified, batch, idx, epochs, st, depth,
                 inSuTry, restarts, err, result, runs, kills, prev, killPoint,
                 resumed>>

\* removeState of stageCertifying, after the short-circuit or after the
\* completed save
ScRemove(at) ==
  /\ pc = at
  /\ \/ /\ RemoveCanSucceed(st.blobId)
        /\ RemoveState(st.blobId)
        /\ Logged(Ev("removeState", 0, NoRec, TRUE))
        /\ ReturnOk
        /\ NoFault
        /\ UNCHANGED err
     \/ /\ IF RemoveCanSucceed(st.blobId) THEN Fault ELSE NoFault
        /\ Logged(Ev("removeState", 0, NoRec, FALSE))
        /\ err' = "removeState failed"
        /\ pc' = "sc_catch"
        /\ UNCHANGED <<store, idx, result>>
  /\ UNCHANGED <<ledger, certified, batch, epochs, st, depth, inSuTry,
                 restarts, runs, kills, prev, killPoint, resumed>>

ScRemoveCertified == ScRemove("sc_remove_certified")

\* executeCertifyBlobTransaction: succeeds only on a registered object
ScCertify ==
  /\ pc = "sc_certify"
  /\ \/ /\ st.blobObjectId \in 1..Len(ledger)
        /\ ledger[st.blobObjectId].status = "registered"
        /\ ledger' = [ledger EXCEPT ![st.blobObjectId].status = "certified"]
        /\ certified' = [certified EXCEPT ![st.blobId] = TRUE]
        /\ Logged(Ev("certify", st.blobObjectId, st, TRUE))
        /\ pc' = "sc_save"
        /\ NoFault
        /\ UNCHANGED err
     \/ /\ IF /\ st.blobObjectId \in 1..Len(ledger)
              /\ ledger[st.blobObjectId].status = "registered"
           THEN Fault ELSE NoFault
        /\ Logged(Ev("certify", st.blobObjectId, st, FALSE))
        /\ err' = "certify failed"
        /\ pc' = "sc_catch"
        /\ UNCHANGED <<ledger, certified>>
  /\ UNCHANGED <<store, batch, idx, epochs, st, depth, inSuTry, restarts,
                 result, runs, kills, prev, killPoint, resumed>>

ScSaveCompleted ==
  /\ pc = "sc_save"
  /\ st' = [st EXCEPT !.stage = "completed"]
  /\ \/ /\ Logged(Ev("saveState", st'.blobObjectId, st', TRUE))
        /\ SaveState(st')
        /\ pc' = "sc_remove"
        /\ NoFault
        /\ UNCHANGED err
     \/ /\ Logged(Ev("saveState", st'.blobObjectId, st', FALSE))
        /\ Fault
        /\ err' = "saveState failed"
        /\ pc' = "sc_catch"
        /\ UNCHANGED store
  /\ UNCHANGED <<ledger, certified, batch, idx, epochs, depth, inSuTry,
                 restarts, result, runs, kills, prev, killPoint, resumed>>

ScRemoveCompleted == ScRemove("sc_remove")

\* catch of stageCertifying: save the state as failed and return normally;
\* only a failure of that save leaves stageCertifying as an exception
ScCatch ==
  /\ pc = "sc_catch"
  /\ st' = [st EXCEPT !.stage = "failed"]
  /\ \/ /\ Logged(Ev("saveState", st'.blobObjectId, st', TRUE))
        /\ SaveState(st')
        /\ ReturnOk
        /\ NoFault
        /\ UNCHANGED err
     \/ /\ inSuTry => CanRestart
        /\ Fault
        /\ Logged(Ev("saveState", st'.blobObjectId, st', FALSE))
        /\ err' = "saveState failed"
        /\ pc' = ThrowFromCertifying
        /\ UNCHANGED <<store, idx, result>>
  /\ UNCHANGED <<ledger, certified, batch, epochs, depth, inSuTry,
                 restarts, runs, kills, prev, killPoint, resumed>>

(* ------------------------------- kill --------------------------------- *)
\* positions right after a save of the given stage, before any further call
AfterSaveOf(stage) ==
  /\ st # NoRec
  /\ st.stage = stage
  /\ store[st.blobId] = JsonRoundTrip(st)
  /\ \/ stage = "registered" /\ pc \in {"su_pre", "su_write"}
     \/ stage = "uploading" /\ pc \in {"sc_pre", "sc_status"}

KillAt ==
  IF AfterSaveOf("registered") THEN "registered"
  ELSE IF AfterSaveOf("uploading") THEN "uploading"
  ELSE "other"

\* the process is killed between two steps: memory is lost, the state
\* directory and the ledger stay
Kill ==
  /\ pc # "idle"
  /\ kills < MaxKills
  /\ kills' = kills + 1
  /\ killPoint' = [at |-> KillAt,
                   blobId |-> IF st = NoRec THEN 0 ELSE st.blobId]
  /\ ProcessExit
  /\ prev' = NoPrev
  /\ UNCHANGED <<store, ledger, certified, runs, faults>>

(* --------------------------- specification ---------------------------- *)
Next ==
  \/ Cli
  \/ CliResume
  \/ UploadFilesNext
  \/ UfCheckEpochs
  \/ UploadFilesRejected
  \/ UfReadFile
  \/ UfCalculateBlobId
  \/ UfLoadState
  \/ UfStatusFresh
  \/ UfStatusCompleted
  \/ UfRemoveState
  \/ UfCatch
  \/ ExecuteStage
  \/ ExecuteStageCatch
  \/ SeEncode
  \/ SeRegister
  \/ SeSaveState
  \/ SuPrecondition
  \/ SuWrite
  \/ SuSaveState
  \/ SuCatchCleanup
  \/ SuCatchReset
  \/ ScPrecondition
  \/ ScStatus
  \/ ScRemoveCertified
  \/ ScCertify
  \/ ScSaveCompleted
  \/ ScRemoveCompleted
  \/ ScCatch
  \/ Kill

Spec == Init /\ [][Next]_vars

(* ------------------------- reading the log ---------------------------- *)
\* the blob of the uploadFile that has just ended
LastPath == batch[idx - 1]

LastBlob == BlobIdOf(LastPath)

\* uploadFile has just returned to uploadFiles
RunEnded == pc = "loop" /\ result \in {"returned", "caught"}

\* positions in the log of the calls of one operation
Calls(op) == {i \in 1..Len(log) : log[i].op = op}

AllOk == \A i \in 1..Len(log) : log[i].ok

AllOkExceptWrite ==
  \A i \in 1..Len(log) : log[i].op # "writeToNodes" => log[i].ok

\* the run resumes a record whose save was the last thing the killed
\* process did
ResumedAfterSave == resumed \in {"registered", "uploading"}

Orphaned(o) ==
  /\ ledger[o].status = "registered"
  /\ \/ store[ledger[o].blobId] = NoRec
     \/ store[ledger[o].blobId].blobObjectId # o

\* C2: interruption tolerance: whenever no process is running (the last one
\* has ended or has been killed between two steps), every ledger object
\* that is registered and neither deleted nor certified is the blobObjectId
\* of the saved record of its blob.
C2_NoOrphanedObject ==
  pc = "idle" => \A o \in 1..Len(ledger) : ~Orphaned(o)

\* the call at position i is a writeEncodedBlobToNodes that threw or
\* returned no valid confirmation
WriteFailed(i) ==
  /\ log[i].op = "writeToNodes"
  /\ ~log[i].ok \/ Len(ValidConfirmations(log[i].ret)) = 0

\* the object registered by the last successful register call before i
RegisteredBefore(i) ==
  LET regs == {j \in Calls("register") : j < i /\ log[j].ok}
  IN  IF regs = {} THEN 0
      ELSE log[CHOOSE j \in regs : \A k \in regs : k <= j].obj

Cleared(r) ==
  /\ r.stage = "encoding"
  /\ r.blobObjectId = 0
  /\ r.metadata = "absent"
  /\ r.sliversByNode = "absent"
  /\ r.confirmations = NoConf
  /\ r.error = "none"

\* C3: stage-2 failure causes full reset: a writeEncodedBlobToNodes that
\* throws or returns no valid confirmation is followed at once by the
\* delete call on the object registered for this attempt and then by a
\* saveState of the record reset to encoding with blobObjectId, metadata,
\* sliversByNode, confirmations and error cleared, before any other call;
\* a run that ends has made both calls.
C3_Stage2FailureResets ==
  \A i \in 1..Len(log) :
    WriteFailed(i) =>
      /\ RunEnded => i + 2 <= Len(log)
      /\ i + 1 <= Len(log) =>
           /\ log[i + 1].op = "deleteBlob"
           /\ log[i + 1].obj = log[i].obj
           /\ log[i].obj # 0
           /\ RegisteredBefore(i) # 0 => log[i + 1].obj = RegisteredBefore(i)
      /\ i + 2 <= Len(log) =>
           /\ log[i + 2].op = "saveState"
           /\ Cleared(log[i + 2].rec)

C3_Witness ==
  \E i \in 1..Len(log) :
    /\ WriteFailed(i)
    /\ log[i].ok
    /\ RegisteredBefore(i) # 0
    /\ i + 2 <= Len(log)
    /\ log[i + 2].ok
    /\ store[log[i + 2].rec.blobId].stage = "encoding"

\* the call at position i is an isBlobCertified of the given caller that
\* answered certified
ReportedCertified(i, caller) ==
  log[i].op = caller /\ log[i].ret = <<"certified">>

\* C4: certification short-circuit: when the isBlobCertified call of
\* stageCertifying answers certified, the next call is removeState and not
\* the certify transaction; once that removeState has returned the record
\* of the blob is gone from the store and uploadFile returns.
C4_CertificationShortCircuit ==
  \A i \in 1..Len(log) :
    ReportedCertified(i, "isBlobCertified@stageCertifying") =>
      /\ pc = "sc_remove_certified" <=> i = Len(log)
      /\ i + 1 <= Len(log) => log[i + 1].op = "removeState"
      /\ (i + 1 = Len(log) /\ log[i + 1].ok) =>
           /\ RunEnded /\ result = "returned"
           /\ store[LastBlob] = NoRec

C4_Witness ==
  /\ RunEnded
  /\ Len(log) >= 2
  /\ ReportedCertified(Len(log) - 1, "isBlobCertified@stageCertifying")
  /\ log[Len(log)].ok
  /\ Calls("certify") = {}
  /\ store[LastBlob] = NoRec

\* loadState found no record and the isBlobCertified call of uploadFile at
\* position i answered certified
FreshAndCertified(i) ==
  /\ i > 1
  /\ log[i - 1].op = "loadState"
  /\ log[i - 1].rec = NoRec
  /\ ReportedCertified(i, "isBlobCertified@uploadFile")

ReadOnlyCalls ==
  {"readFile", "computeBlobMetadata", "loadState",
   "isBlobCertified@uploadFile"}

\* C5: skip-on-already-certified: when uploadFile loads no record and its
\* isBlobCertified call answers certified, uploadFile returns at once: it
\* has made no encode, register, write, certify or delete call and no
\* saveState, and the store holds no record for the blob.
C5_SkipAlreadyCertified ==
  \A i \in 1..Len(log) :
    FreshAndCertified(i) =>
      /\ RunEnded /\ result = "returned"
      /\ i = Len(log)
      /\ \A j \in 1..Len(log) : log[j].op \in ReadOnlyCalls
      /\ store[LastBlob] = NoRec

C5_Witness ==
  /\ Len(log) > 1
  /\ FreshAndCertified(Len(log))
  /\ RunEnded
  /\ certified[LastBlob]

\* C6: idempotent fresh upload: when a fresh upload in which every call
\* succeeded is followed, without a kill, by a second uploadFile on the same
\* bytes in which every call succeeds, the two runs make exactly one
\* register call together and the store holds no record for the blob after
\* the second run.
C6_IdempotentFreshUpload ==
  (RunEnded /\ prev.fresh /\ prev.blobId = LastBlob /\ AllOk /\ restarts = 0)
    => /\ prev.regs + Cardinality(Calls("register")) = 1
       /\ store[LastBlob] = NoRec

C6_Witness ==
  /\ RunEnded /\ prev.fresh /\ prev.blobId = LastBlob /\ AllOk
  /\ prev.regs = 1
  /\ Cardinality({o \in 1..Len(ledger) : ledger[o].blobId = LastBlob}) = 1
  /\ store[LastBlob] = NoRec

\* the operations of the log, in order
OpsOfLog == [i \in 1..Len(log) |-> log[i].op]

\* the stages of the records passed to saveState, in order
RECURSIVE SavedStages(_)
SavedStages(l) ==
  IF l = <<>> THEN <<>>
  ELSE IF Head(l).op = "saveState"
       THEN <<Head(l).rec.stage>> \o SavedStages(Tail(l))
       ELSE SavedStages(Tail(l))

\* the run started with no record and a blob reported not certified
FreshRun ==
  /\ Len(log) >= 4
  /\ log[3].op = "loadState" /\ log[3].rec = NoRec
  /\ log[4].op = "isBlobCertified@uploadFile"
  /\ log[4].ret = <<"not certified">>

\* C7: happy path: a fresh upload in which every call succeeds and
\* writeEncodedBlobToNodes returns a valid confirmation calls, in this
\* order, encodeBlob, register, saveState (registered), writeToNodes,
\* saveState (uploading), the status check, certify, saveState (completed)
\* and removeState, each once, and leaves no record for the blob.
C7_HappyPathSequence ==
  (RunEnded /\ FreshRun /\ AllOk /\ restarts = 0) =>
    /\ OpsOfLog = <<"readFile", "computeBlobMetadata", "loadState",
                    "isBlobCertified@uploadFile", "encodeBlob", "register",
                    "saveState", "writeToNodes", "saveState",
                    "isBlobCertified@stageCertifying", "certify",
                    "saveState", "removeState">>
    /\ SavedStages(log) = <<"registered", "uploading", "completed">>
    /\ log[6].obj = log[8].obj /\ log[8].obj = log[11].obj
    /\ result = "returned"
    /\ store[LastBlob] = NoRec

C7_Witness ==
  /\ RunEnded /\ FreshRun /\ AllOk /\ restarts = 0
  /\ Len(log) = 13
  /\ Len(ValidConfirmations(log[8].ret)) < Len(log[8].ret)
  /\ ledger[log[11].obj].status = "certified"
  /\ ListPendingUploads = {}

\* the epochs option is absent or is the number zero
AbsentOrZero(e) == e = "undefined" \/ e = "0"

\* C8: configuration validation: an uploadFile invoked with an absent or
\* zero epochs option throws out of uploadFile before any call is made: it
\* never gets past the check, its log of calls stays empty, and it ends as
\* a rejection, never as a return.
C8_ConfigurationValidation ==
  (AbsentOrZero(epochs) /\ pc # "idle") =>
    /\ pc \in {"loop", "uf_check", "rejected"}
    /\ log = <<>>
    /\ pc = "loop" => (idx = 1 /\ result = "none")
    /\ pc = "rejected" => result = "threw"

C8_Witness ==
  /\ pc = "rejected"
  /\ epochs = "0"
  /\ result = "threw"
  /\ log = <<>>

\* C9: batch error containment: with a valid epochs option and no kill, an
\* error of one file never leaves uploadFile: the catch of uploadFile hands
\* control back to the loop of uploadFiles at the next path, uploadFiles is
\* never rejected, and the batch ends only after its last path.
C9_BatchErrorContainment ==
  [][(~AbsentOrZero(epochs) /\ pc # "idle" /\ kills' = kills) =>
       /\ pc' # "rejected"
       /\ pc = "uf_catch" =>
            (pc' = "loop" /\ idx' = idx + 1 /\ batch' = batch
             /\ result' = "caught")
       /\ pc' = "idle" => (pc = "loop" /\ idx > Len(batch))
       /\ (pc = "loop" /\ idx <= Len(batch)) =>
            (pc' = "uf_check" /\ idx' = idx /\ batch' = batch)]_vars

C9_Witness ==
  /\ pc = "uf_read"
  /\ idx = 2
  /\ prev.result = "caught"
  /\ ~AbsentOrZero(epochs)

\* the uploadFile that has just ended certified the blob, saved the record
\* as completed and removed it
CompletedAndRemoved ==
  /\ RunEnded
  /\ Len(log) >= 2
  /\ log[Len(log) - 1].op = "saveState"
  /\ log[Len(log) - 1].rec.stage = "completed"
  /\ log[Len(log) - 1].ok
  /\ log[Len(log)].op = "removeState"
  /\ log[Len(log)].ok

OneConfirmation == [i \in 1..NumNodes |-> IF i = 1 THEN "conf" ELSE "null"]

UploadingState(s, cs) == [s EXCEPT !.confirmations = cs, !.stage = "uploading"]

SampleStates(p) ==
  LET n == NewState(p)
      r == RegisteredState(n, 1)
      u == UploadingState(r, OneConfirmation)
  IN  {n, r, u, [u EXCEPT !.stage = "certifying"],
       [u EXCEPT !.stage = "completed"],
       [n EXCEPT !.stage = "failed", !.error = "register failed"]}

\* a program holding a StateManager over a state directory of any content
InitStore ==
  /\ store \in [BlobIds -> {NoRec, Corrupt}]
  /\ ledger = <<>>
  /\ certified = [b \in BlobIds |-> FALSE]
  /\ pc = "client"
  /\ batch = <<>>
  /\ idx = 1
  /\ epochs = "5"
  /\ st = NoRec
  /\ depth = 0
  /\ inSuTry = FALSE
  /\ restarts = 0
  /\ err = "none"
  /\ log = <<>>
  /\ result = "none"
  /\ runs = 0
  /\ faults = 0
  /\ kills = 0
  /\ killPoint = NoKill
  /\ resumed = "none"
  /\ prev = NoPrev

\* the log keeps the last call: its key, the file content it found, and
\* whether it returned
ClientCalled(op, b, ok) == log' = <<Ev(op, b, store[b], ok)>>

ClientSaveState ==
  /\ pc = "client"
  /\ \E p \in Paths : \E r \in SampleStates(p) :
       /\ SaveState(r)
       /\ ClientCalled("saveState", r.blobId, TRUE)
  /\ result' = "returned"
  /\ UNCHANGED <<ledger, certified, pc, batch, idx, epochs, st, depth,
                 inSuTry, restarts, err, runs, faults, kills, killPoint,
                 resumed, prev>>

ClientLoadState ==
  /\ pc = "client"
  /\ \E b \in BlobIds :
       /\ st' = LoadState(b)
       /\ ClientCalled("loadState", b, TRUE)
  /\ result' = "returned"
  /\ UNCHANGED <<store, ledger, certified, pc, batch, idx, epochs, depth,
                 inSuTry, restarts, err, runs, faults, kills, killPoint,
                 resumed, prev>>

ClientRemoveState ==
  /\ pc = "client"
  /\ \E b \in BlobIds :
       IF RemoveCanSucceed(b)
       THEN /\ RemoveState(b)
            /\ ClientCalled("removeState", b, TRUE)
            /\ result' = "returned"
            /\ UNCHANGED err
       ELSE /\ ClientCalled("removeState", b, FALSE)
            /\ result' = "threw"
            /\ err' = "removeState failed"
            /\ UNCHANGED store
  /\ UNCHANGED <<ledger, certified, pc, batch, idx, epochs, st, depth,
                 inSuTry, restarts, runs, faults, kills, killPoint,
                 resumed, prev>>

NextStore ==
  \/ ClientSaveState
  \/ ClientLoadState
  \/ ClientRemoveState

SpecStore == InitStore /\ [][NextStore]_vars

\* the last call of the client
LastCall == log[1]

ClientDid(op) == pc = "client" /\ log # <<>> /\ LastCall.op = op

(* ------------------------------- C11 ---------------------------------- *)
\* C11: removeState for a fingerprint that has no stored record returns
\* normally and leaves the store unchanged
C11_RemoveAbsentIsNoop ==
  (ClientDid("removeState") /\ LastCall.rec = NoRec)
    => /\ LastCall.ok
       /\ result = "returned"
       /\ store[LastCall.obj] = NoRec

(* ---------- the uploader started on a state directory of any content --- *)
\* one state file of any content (left by an earlier process, truncated by
\* a kill inside writeFile, or edited by hand), the object it names being
\* on the ledger; the process runs the rest of its budget of uploadFile
\* records of the resumable stages in which a field the stage needs is
\* not there
EditedStates(p) ==
  LET r == RegisteredState(NewState(p), 1)
      u == UploadingState(r, OneConfirmation)
  IN  {[r EXCEPT !.metadata = "absent"],
       [r EXCEPT !.sliversByNode = "absent"],
       [r EXCEPT !.blobObjectId = 0],
       [u EXCEPT !.confirmations = NoConf],
       [u EXCEPT !.blobObjectId = 0],
       [u EXCEPT !.confirmations = NoConf, !.stage = "certifying"]}

StoreContents(b) ==
  {NoRec, Corrupt}
    \cup UNION {SampleStates(p) \cup EditedStates(p) :
                  p \in {q \in Paths : BlobIdOf(q) = b}}

ObjectsOf(r) ==
  IF r \in {NoRec, Corrupt} \/ r.blobObjectId = 0 THEN <<>>
  ELSE <<[blobId |-> r.blobId,
          status |-> IF r.stage = "completed" THEN "certified"
                     ELSE "registered"]>>

InitAnyStore ==
  /\ \E b \in BlobIds : \E r \in StoreContents(b) :
       /\ store = [x \in BlobIds |-> IF x = b THEN r ELSE NoRec]
       /\ ledger = ObjectsOf(r)
       /\ \E c \in BOOLEAN :
            /\ (r \notin {NoRec, Corrupt} /\ r.stage = "completed") => c
            /\ certified = [x \in BlobIds |-> x = b /\ c]
  /\ pc = "idle"
  /\ batch = <<>>
  /\ idx = 1
  /\ epochs = "5"
  /\ st = NoRec
  /\ depth = 0
  /\ inSuTry = FALSE
  /\ restarts = 0
  /\ err = "none"
  /\ log = <<>>
  /\ result = "none"
  /\ runs = MaxRuns - 1
  /\ faults = 0
  /\ kills = 0
  /\ killPoint = NoKill
  /\ resumed = "none"
  /\ prev = NoPrev

SpecAnyStore == InitAnyStore /\ [][Next]_vars

(* ------------------------------- C12 ---------------------------------- *)
\* uploadFile has just called loadState
JustLoaded == pc \in {"uf_status", "uf_status_done", "exec"} /\ Len(log) = 3

Unreadable(r) == r \in {NoRec, Corrupt}

\* C12: loadState never raises; it returns the stored record when one is
\* readable and null for a missing key or a corrupt payload, and on null
\* uploadFile takes the no-record branch: the status check, then a fresh
\* state at encoding
C12_LoadNeverRaises ==
  /\ JustLoaded =>
       /\ log[3].op = "loadState"
       /\ log[3].ok
       /\ log[3].rec = st
       /\ st = IF Unreadable(store[CurBlob]) THEN NoRec ELSE store[CurBlob]
       /\ Unreadable(store[CurBlob]) => pc = "uf_status"
  /\ (Len(log) >= 4 /\ log[3].op = "loadState" /\ log[3].rec = NoRec) =>
       /\ log[4].op = "isBlobCertified@uploadFile"
       /\ (Len(log) = 4 /\ pc = "exec") =>
            (st = NewState(CurPath) /\ log[4].ret = <<"not certified">>)
       /\ Len(log) >= 5 =>
            (log[5].op = "encodeBlob" /\ log[4].ret = <<"not certified">>)

\* a corrupt state file was loaded as null and the upload started afresh
C12_Witness ==
  /\ Len(log) >= 5
  /\ log[3].op = "loadState"
  /\ log[3].rec = NoRec
  /\ log[5].op = "encodeBlob"
  /\ store[CurBlob] = Corrupt

(* ------------------------------- C13 ---------------------------------- *)
\* an uploadFile is between its call and its return
InFlight == pc \notin {"idle", "loop", "rejected", "client"}

\* C13: sequential batch: every gateway call and store operation is made by
\* the uploadFile of the one path in flight, batch[idx], and touches that
\* path's record and objects only; idx moves by one, and only when that
\* uploadFile returns; the next uploadFile starts at the path idx names
C13_SequentialBatch ==
  [][/\ (log' # log /\ log' # <<>>) =>
          (InFlight /\ idx \in 1..Len(batch) /\ batch' = batch)
     /\ \A b \in BlobIds :
          (store'[b] # store[b] \/ certified'[b] # certified[b]) =>
            (InFlight /\ b = BlobIdOf(batch[idx]))
     /\ ledger' # ledger =>
          /\ InFlight
          /\ Len(ledger') >= Len(ledger)
          /\ \A o \in 1..Len(ledger') :
               (o > Len(ledger) \/ ledger'[o] # ledger[o]) =>
                 ledger'[o].blobId = BlobIdOf(batch[idx])
     /\ idx' # idx =>
          \/ InFlight /\ pc' = "loop" /\ idx' = idx + 1
          \/ pc' = "idle" /\ idx' = 1
     /\ (InFlight /\ pc' = "loop") => (idx' = idx + 1 /\ batch' = batch)
     /\ (pc = "loop" /\ pc' # "idle") =>
          (pc' = "uf_check" /\ idx' = idx /\ idx <= Len(batch)
           /\ batch' = batch)
     /\ (pc = "idle" /\ pc' = "loop") => idx' = 1]_vars

\* the second path of a batch is in flight after the first one returned
C13_Witness ==
  /\ InFlight
  /\ idx = 2
  /\ Len(log) >= 4
  /\ prev.result = "returned"
  /\ batch[1] # batch[2]

(* ------------------------------- C14 ---------------------------------- *)
\* the records written by the saveState calls of this uploadFile
SavedRecords == {log[i].rec : i \in {j \in Calls("saveState") : log[j].ok}}

\* the records ever saved that are still visible: the stored ones and the
\* ones this uploadFile has written
EverSaved == {store[b] : b \in {x \in BlobIds : store[x] # NoRec}} \cup SavedRecords

ObjectPresent(r) == r.blobObjectId # 0

\* C14: every saved record at stage registered, uploading, certifying,
\* completed or failed has its blobObjectId present
C14_ObjectPresentFromRegistered ==
  \A r \in EverSaved :
    r.stage \in {"registered", "uploading", "certifying", "completed",
                 "failed"} => ObjectPresent(r)

\* the save at position i records a failure caught before any register of
\* this fresh upload returned
FailedBeforeRegistering(i) ==
  /\ FreshRun
  /\ log[i].op = "saveState"
  /\ log[i].rec.stage = "failed"
  /\ \A j \in 1..(i - 1) : log[j].op = "register" => ~log[j].ok

\* C14 (amended): every saved record at stage registered, uploading,
\* certifying or completed has its blobObjectId present; a record saved as
\* failed has the blobObjectId the state held when the failure was caught,
\* which is none after an encode or register failure on a fresh upload
C14_ObjectPresentUnlessFailed ==
  /\ \A r \in EverSaved :
       r.stage \in {"registered", "uploading", "certifying", "completed"}
         => ObjectPresent(r)
  /\ \A i \in 1..Len(log) :
       FailedBeforeRegistering(i) => ~ObjectPresent(log[i].rec)

\* the store holds a record at registered with its object and a record
\* saved as failed after the register call of a fresh upload threw
C14_Witness ==
  /\ RunEnded
  /\ \E i \in 2..Len(log) :
       /\ FailedBeforeRegistering(i)
       /\ log[i].ok
       /\ log[i - 1].op = "register"
  /\ store[LastBlob].stage = "failed"
  /\ \E b \in BlobIds : store[b].stage = "registered" /\ ObjectPresent(store[b])

(* ------------------------------- C15 ---------------------------------- *)
\* the certify call at position i of the log threw
CertifyFailed(i) == log[i].op = "certify" /\ ~log[i].ok

\* C15: when the certify call fails, the record then saved has stage failed
\* and its error field set to the message of the failure
C15_CertifyFailureRecordsMessage ==
  \A i \in 1..Len(log) :
    (CertifyFailed(i) /\ i < Len(log)) =>
      /\ log[i + 1].op = "saveState"
      /\ log[i + 1].rec.stage = "failed"
      /\ log[i + 1].rec.error = "certify failed"
      /\ (RunEnded /\ i + 1 = Len(log) /\ log[i + 1].ok) =>
           (store[LastBlob].stage = "failed"
            /\ store[LastBlob].error = "certify failed")

(* ------------------------------- C16 ---------------------------------- *)
\* C16: every record saved with stage registered, uploading or completed
\* has its error field absent, also in a retry that started from a failed
\* record carrying an error
C16_ErrorClearedOnTransition ==
  \A r \in EverSaved :
    r.stage \in {"registered", "uploading", "completed"} => r.error = "none"

(* ------------------------------- C17 ---------------------------------- *)
\* the calls that change the ledger or the storage nodes
GatewayMutations ==
  {"encodeBlob", "register", "writeToNodes", "deleteBlob", "certify"}

\* C17: after a certify call that failed, the same uploadFile makes no
\* further gateway mutation call, and it ends with the record persisted at
\* failed
C17_CertifyFailureIsTerminal ==
  \A i \in 1..Len(log) :
    CertifyFailed(i) =>
      /\ \A j \in (i + 1)..Len(log) : log[j].op \notin GatewayMutations
      /\ RunEnded => store[LastBlob].stage = "failed"

\* the same, when the save of the failed record succeeds
C17_TerminalWhenSaved ==
  \A i \in 1..Len(log) :
    (CertifyFailed(i) /\ i < Len(log) /\ log[i + 1].ok) =>
      /\ \A j \in (i + 1)..Len(log) : log[j].op \notin GatewayMutations
      /\ RunEnded => store[LastBlob].stage = "failed"

StoreWrites == Calls("saveState") \cup Calls("removeState")

\* uploadFile got as far as loading the record, and the last call that
\* writes or deletes the state file, if any, succeeded
LoadedAndLastWriteOk ==
  /\ Len(log) >= 3
  /\ log[3].op = "loadState"
  /\ \A i \in StoreWrites :
       (\A j \in StoreWrites : j <= i) => log[i].ok

JustCalled(op) ==
  InFlight /\ log # <<>> /\ log[Len(log)].op = op

LastEv == log[Len(log)]

\* C19: persist before advancing: writeEncodedBlobToNodes is called only
\* when the store holds the blob's record at stage registered with the
\* blobObjectId passed to the call; certify is called only when the store
\* holds the record at stage uploading or certifying with the confirmations
\* and the blobObjectId passed to the call; a run that finds a record
\* resumes from that persisted record
C19_PersistBeforeAdvancing ==
  /\ JustCalled("writeToNodes") =>
       /\ store[CurBlob].stage = "registered"
       /\ LastEv.obj # 0
       /\ LastEv.obj = LastEv.rec.blobObjectId
       /\ store[CurBlob].blobObjectId = LastEv.obj
  /\ JustCalled("certify") =>
       /\ store[CurBlob].stage \in {"uploading", "certifying"}
       /\ LastEv.obj # 0
       /\ LastEv.obj = LastEv.rec.blobObjectId
       /\ store[CurBlob].blobObjectId = LastEv.obj
       /\ store[CurBlob].confirmations = LastEv.rec.confirmations
       /\ ValidConfirmations(LastEv.rec.confirmations) # <<>>
  /\ (JustLoaded /\ pc = "exec") => st = store[CurBlob]

\* certify has just been called in a run that wrote to the nodes
C19_Witness ==
  /\ JustCalled("certify")
  /\ LastEv.ok
  /\ \E i \in Calls("writeToNodes") : log[i].ok
  /\ store[CurBlob].stage = "uploading"

(* ------------------------------- C20 ---------------------------------- *)
\* the changes of persisted stage a step makes: <<stage before, stage after>>
\* of each state file whose stage changes, "none" standing for no file
StageChanges ==
  {<<store[b].stage, store'[b].stage>> :
     b \in {x \in BlobIds : store'[x].stage # store[x].stage}}

ChainSteps ==
  {<<"encoding", "registered">>, <<"registered", "uploading">>,
   <<"uploading", "certifying">>, <<"certifying", "completed">>}

\* C20: the persisted stage of a record advances one step at a time along
\* encoding, registered, uploading, certifying, completed; its only other
\* changes are a move to failed and a reset to encoding; no save skips a
\* stage (the first save of a record and its removal are left free)
C20_OneStepAtATime ==
  [][\A c \in StageChanges :
       \/ c \in ChainSteps
       \/ c[2] \in {"failed", "encoding"}
       \/ c[1] = "none"
       \/ c[2] = "none"]_vars

\* the changes of persisted stage the saves and removals of the code make
CodeSteps ==
  {<<"none", "registered">>, <<"encoding", "registered">>,
   <<"failed", "registered">>, <<"completed", "registered">>,
   <<"registered", "uploading">>, <<"uploading", "completed">>,
   <<"none", "failed">>, <<"encoding", "failed">>,
   <<"registered", "failed">>, <<"uploading", "failed">>,
   <<"completed", "failed">>,
   <<"registered", "encoding">>, <<"uploading", "encoding">>,
   <<"completed", "encoding">>,
   <<"uploading", "none">>, <<"completed", "none">>}

\* C20 (amended): the persisted stage changes only by a save of registered
\* (over no record or over a record at encoding, failed or completed), a
\* save of uploading over registered, a save of completed over uploading
\* (certifying is never saved), a save of failed, a reset to encoding by the
\* recovery of stageUploading, and the removal of a record at uploading or
\* completed
C20_StepsOfTheCode ==
  [][\A c \in StageChanges : c \in CodeSteps]_vars

\* the record saved at uploading has just been saved at completed
C20_Witness ==
  /\ pc = "sc_remove"
  /\ store[CurBlob].stage = "completed"
  /\ Len(log) >= 4
  /\ LastEv.op = "saveState" /\ LastEv.ok
  /\ log[Len(log) - 1].op = "certify"
  /\ \E i \in Calls("saveState") :
       /\ log[i].ok
       /\ log[i].rec.stage = "uploading"
       /\ \A j \in Calls("saveState") : ~(i < j /\ j < Len(log))

(* ------------------------------- C21 ---------------------------------- *)
UploadingMessage == "Missing required state for uploading stage"

CertificationMessage == "Missing required state for certification stage"

\* the message of the precondition a loaded record fails, "none" when it
\* fails none
PreconditionMessage(r) ==
  IF r = NoRec THEN "none"
  ELSE IF /\ r.stage = "registered"
          /\ \/ r.metadata = "absent"
             \/ r.sliversByNode = "absent"
             \/ r.blobObjectId = 0
       THEN UploadingMessage
  ELSE IF /\ r.stage \in {"uploading", "certifying"}
          /\ (r.confirmations = NoConf \/ r.blobObjectId = 0)
       THEN CertificationMessage
  ELSE "none"

\* uploadFile has loaded a record that lacks a field its stage needs
ResumedLacking ==
  /\ Len(log) >= 3
  /\ log[3].op = "loadState"
  /\ PreconditionMessage(log[3].rec) # "none"

\* C21: precondition error: resuming a record at registered that lacks
\* metadata, sliversByNode or blobObjectId, or a record at uploading or
\* certifying that lacks confirmations or blobObjectId, makes no gateway
\* mutation call and ends with the record saved at failed with the
\* missing-precondition message in its error field
C21_PreconditionError ==
  ResumedLacking =>
    /\ \A i \in 1..Len(log) : log[i].op \notin GatewayMutations
    /\ Len(log) <= 4
    /\ Len(log) = 4 =>
         /\ log[4].op = "saveState"
         /\ log[4].rec.stage = "failed"
         /\ log[4].rec.error = PreconditionMessage(log[3].rec)
    /\ RunEnded =>
         /\ Len(log) = 4
         /\ result = "caught"
         /\ log[4].ok =>
              /\ store[LastBlob].stage = "failed"
              /\ store[LastBlob].error = PreconditionMessage(log[3].rec)

\* a record at registered without its metadata was resumed and saved as
\* failed
C21_Witness ==
  /\ RunEnded
  /\ ResumedLacking
  /\ log[3].rec.stage = "registered"
  /\ log[3].rec.metadata = "absent"
  /\ store[LastBlob].stage = "failed"
  /\ store[LastBlob].error = UploadingMessage

(* ------------------------------- C22 ---------------------------------- *)
\* the delete call at position i of the log threw
DeleteFailed(i) == log[i].op = "deleteBlob" /\ ~log[i].ok

\* a call at a position from a to b failed
FailureWithin(a, b) ==
  \E k \in a..b : ~log[k].ok \/ WriteFailed(k)

\* C22: best-effort cleanup: a delete call that fails in the recovery of
\* stageUploading is not propagated: the next call is the saveState of the
\* record reset to encoding, after it execution restarts at encodeBlob, and
\* a later save of the record as failed follows a failure of a later call
C22_BestEffortCleanup ==
  \A i \in 1..Len(log) :
    DeleteFailed(i) =>
      /\ RunEnded => i < Len(log)
      /\ i < Len(log) =>
           (log[i + 1].op = "saveState" /\ Cleared(log[i + 1].rec))
      /\ (i + 1 < Len(log) /\ log[i + 1].ok) => log[i + 2].op = "encodeBlob"
      /\ \A j \in (i + 1)..Len(log) :
           (log[j].op = "saveState" /\ log[j].rec.stage = "failed") =>
             FailureWithin(i + 1, j - 1)

\* after a failed delete the upload restarted and ran to completion
C22_Witness ==
  /\ RunEnded
  /\ result = "returned"
  /\ store[LastBlob] = NoRec
  /\ \E i \in 1..Len(log) :
       /\ DeleteFailed(i)
       /\ i + 2 <= Len(log)
       /\ log[i + 2].op = "encodeBlob"
       /\ \A j \in (i + 1)..Len(log) : log[j].ok
  /\ log[Len(log)].op = "removeState"

(* ------------------------------- C23 ---------------------------------- *)
\* uploadFile has loaded a record at stage completed
LoadedCompleted ==
  /\ Len(log) >= 3
  /\ log[3].op = "loadState"
  /\ log[3].rec.stage = "completed"

\* C23: completed-record decision: a loaded record at completed makes
\* uploadFile re-check the certification; when certified it removes the
\* record and makes no gateway mutation call, when not certified it sets
\* the stage to encoding and runs the sequence from encodeBlob and register
C23_CompletedRecordDecision ==
  (LoadedCompleted /\ Len(log) >= 4) =>
    /\ log[4].op = "isBlobCertified@uploadFile"
    /\ log[4].ret = <<"certified">> =>
         /\ Len(log) <= 5
         /\ \A i \in 1..Len(log) : log[i].op \notin GatewayMutations
         /\ Len(log) = 5 => log[5].op = "removeState"
         /\ RunEnded =>
              (Len(log) = 5 /\ (log[5].ok => store[LastBlob] = NoRec))
    /\ log[4].ret = <<"not certified">> =>
         /\ (Len(log) = 4 /\ pc = "exec") => st.stage = "encoding"
         /\ Len(log) >= 5 => log[5].op = "encodeBlob"
         /\ (Len(log) >= 6 /\ log[5].ok) => log[6].op = "register"
         /\ RunEnded => Len(log) >= 5

\* a completed record of an uncertified blob was restarted and registered
C23_Witness ==
  /\ LoadedCompleted
  /\ Len(log) >= 6
  /\ log[4].ret = <<"not certified">>
  /\ log[6].op = "register"
  /\ log[6].ok

\* a completed record of a certified blob was removed
C23_CertifiedRemoved ==
  /\ RunEnded
  /\ LoadedCompleted
  /\ Len(log) = 5
  /\ log[4].ret = <<"certified">>
  /\ log[5].ok

(* ------------------------------- C24 ---------------------------------- *)
\* uploadFile has loaded a record at stage failed
LoadedFailed ==
  /\ Len(log) >= 3
  /\ log[3].op = "loadState"
  /\ log[3].rec.stage = "failed"

\* the confirmations returned by the last writeEncodedBlobToNodes before i
WrittenBefore(i) ==
  LET ws == {j \in Calls("writeToNodes") : j < i /\ log[j].ok}
  IN  IF ws = {} THEN NoConf
      ELSE log[CHOOSE j \in ws : \A k \in ws : k <= j].ret

\* C24: failed-record resume: a loaded record at failed is re-entered at
\* encoding: the first calls are encodeBlob and register, and every
\* writeEncodedBlobToNodes and certify call of the run is given the object
\* registered in this run and the confirmations written in this run, never
\* the ones persisted by the failed run
C24_FailedRecordRestarts ==
  LoadedFailed =>
    /\ Len(log) >= 4 => log[4].op = "encodeBlob"
    /\ (Len(log) >= 5 /\ log[4].ok) => log[5].op = "register"
    /\ \A i \in Calls("writeToNodes") :
         /\ RegisteredBefore(i) # 0
         /\ log[i].obj = RegisteredBefore(i)
         /\ log[i].rec.metadata = "native"
         /\ log[i].rec.sliversByNode = "native"
    /\ \A i \in Calls("certify") :
         /\ RegisteredBefore(i) # 0
         /\ log[i].obj = RegisteredBefore(i)
         /\ log[i].rec.confirmations = WrittenBefore(i)

\* a record saved as failed with the fields of its failed run was retried
\* and went through register, write and certify again
C24_Witness ==
  /\ LoadedFailed
  /\ log[3].rec.blobObjectId # 0
  /\ log[3].rec.confirmations # NoConf
  /\ Calls("certify") # {}
  /\ \A i \in 1..Len(log) : log[i].ok

(* ------------------------------- C25 ---------------------------------- *)
\* the confirmations are present and one of them at least is not null
HasConfirmation(cs) == \E i \in 1..Len(cs) : cs[i] = "conf"

\* C25: every record saved with stage uploading or certifying has
\* confirmations with at least one non-null entry, and certify is never
\* called with confirmations that are all null
C25_ConfirmationsInvariant ==
  /\ \A r \in EverSaved :
       r.stage \in {"uploading", "certifying"} =>
         HasConfirmation(r.confirmations)
  /\ \A i \in Calls("saveState") :
       log[i].rec.stage \in {"uploading", "certifying"} =>
         HasConfirmation(log[i].rec.confirmations)
  /\ \A i \in Calls("certify") : HasConfirmation(log[i].rec.confirmations)

\* a record was saved at uploading with a null among its confirmations and
\* certify was called with them
C25_Witness ==
  /\ JustCalled("certify")
  /\ \E k \in 1..Len(LastEv.rec.confirmations) :
       LastEv.rec.confirmations[k] = "null"
  /\ store[CurBlob].stage = "uploading"
  /\ store[CurBlob].confirmations = LastEv.rec.confirmations

(* ------------------------------- C26 ---------------------------------- *)
\* positions of the saves with which the recovery of stageUploading
\* restarts the upload: after such a save the state object and the state
\* file are the record saved
RestartSaves ==
  {i \in Calls("saveState") : log[i].ok /\ log[i].rec.stage = "encoding"}

\* C26: termination: the recovery loop of stageUploading stops after
\* finitely many restarts even when write-to-nodes fails at every attempt,
\* so the restarts of one uploadFile make progress: no restart begins with
\* the state object and state file an earlier restart of the same
\* uploadFile began with
C26_RecoveryLoopStops ==
  \A i \in RestartSaves : \A j \in RestartSaves :
    i < j => log[i].rec # log[j].rec

(* ------------------------------- C27 ---------------------------------- *)
\* uploadFile has loaded a record that names a registered object
LoadedWithObject ==
  /\ Len(log) >= 3
  /\ log[3].op = "loadState"
  /\ log[3].rec # NoRec
  /\ log[3].rec.blobObjectId # 0

\* C27: no orphan on re-registration, no process being killed: when
\* register is called in a run whose record already carries the
\* blobObjectId of an earlier registration, the delete call has been made
\* for that object
C27_NoOrphanOnReregistration ==
  (kills = 0 /\ LoadedWithObject) =>
    \A i \in Calls("register") :
      \E j \in Calls("deleteBlob") :
        j < i /\ log[j].obj = log[3].rec.blobObjectId

(* ------------------------------- C28 ---------------------------------- *)
\* the blob of the uploadFile whose calls the log holds
LogBlob == IF pc = "loop" THEN LastBlob ELSE CurBlob

\* the blob was certified before this uploadFile started: it is certified
\* and no certify call of this uploadFile has succeeded
CertifiedAtStart ==
  /\ log # <<>>
  /\ certified[LogBlob]
  /\ \A i \in Calls("certify") : ~log[i].ok

\* C28: no registration of an already-certified blob: when the blob is
\* certified as uploadFile starts, register is not called during that run,
\* whatever the stage of the local record
C28_NoRegistrationWhenCertified ==
  CertifiedAtStart => Calls("register") = {}

(* ------------------------------- C29 ---------------------------------- *)
\* positions of the saveState calls that pass a record at stage encoding
EncodingSaves == {i \in Calls("saveState") : log[i].rec.stage = "encoding"}

\* C29: atomic reset: every record saved with stage encoding has
\* blobObjectId, metadata, sliversByNode, confirmations and error absent;
\* the reset of the recovery is one saveState call, made right after the
\* delete call and followed, when it succeeds, by encodeBlob
C29_AtomicReset ==
  /\ \A r \in EverSaved : r.stage = "encoding" => Cleared(r)
  /\ \A i \in EncodingSaves :
       /\ Cleared(log[i].rec)
       /\ i > 1
       /\ log[i - 1].op = "deleteBlob"
       /\ (log[i].ok /\ i < Len(log)) => log[i + 1].op = "encodeBlob"

\* the reset record has just been written over the registered record of
\* this run
C29_Witness ==
  /\ JustCalled("saveState")
  /\ pc = "exec"
  /\ LastEv.ok
  /\ Cleared(LastEv.rec)
  /\ store[CurBlob] = LastEv.rec
  /\ \E i \in Calls("saveState") :
       log[i].ok /\ log[i].rec.stage = "registered"
====
